---- MODULE Spec2Model ----
(***************************************************************************)
(* Model of code/arch/sisr_arch.py: BaseNetwork.init_weights, SRGenerator, *)
(* EdgeGenerator, ResnetBlock, spectral_norm and EdgeSRModel.              *)
(*                                                                         *)
(* A tensor is abstracted by its shape (B, C, H, W), by the numeric class  *)
(* of its elements (val), by the expression that produced it (src, a       *)
(* prefix-notation term) and by the spectral-normalisation estimate it was *)
(* computed with (sig).  A layer is a record of its constructor arguments  *)
(* and of the state of its parameters and buffers.                         *)
(***************************************************************************)
EXTENDS Integers, Sequences, FiniteSets, TLC

\* ------------------------------------------------------------------ bounds
MaxB == 2
MaxQuads == 2
MaxGenH == 16
MaxBlocks == 2
MaxBlockC == 2
MaxDilation == 3
MaxBlockH == 8
MaxPowerIters == 2
NumCalls == 2
Unit == 2

\* ------------------------------------------------------- program constants
ScaleFactor == 4
DefaultResidualBlocks == 8
DefaultGain == 2
BlockDim == 256
BlockDilation == 2
RgbChannels == 3
EdgeChannels == 1

\* Gains are in hundredths: DefaultGain is the 0.02 of init_weights.
Gains == {DefaultGain, 100}
InitTypes == {"normal", "xavier", "kaiming", "orthogonal", "bogus"}

\* ------------------------------------------------------------- class names
\* classname.find(sub) works on the characters of m.__class__.__name__.
ClassChars(cls) ==
    CASE cls = "Conv2d" -> <<"C","o","n","v","2","d">>
      [] cls = "ConvTranspose2d" ->
            <<"C","o","n","v","T","r","a","n","s","p","o","s","e","2","d">>
      [] cls = "InstanceNorm2d" ->
            <<"I","n","s","t","a","n","c","e","N","o","r","m","2","d">>
      [] cls = "ReflectionPad2d" ->
            <<"R","e","f","l","e","c","t","i","o","n","P","a","d","2","d">>
      [] cls = "ReLU" -> <<"R","e","L","U">>
      [] OTHER -> <<>>

ConvChars == <<"C","o","n","v">>
LinearChars == <<"L","i","n","e","a","r">>
BatchNormChars == <<"B","a","t","c","h","N","o","r","m","2","d">>

\* str.find: the lowest index (from 0) at which sub occurs in s, or -1.
Find(s, sub) ==
    LET hits == {i \in 1..(Len(s) - Len(sub) + 1) :
                    \A j \in 1..Len(sub) : s[i + j - 1] = sub[j]}
    IN  IF hits = {} THEN -1
        ELSE (CHOOSE i \in hits : \A k \in hits : i <= k) - 1

ClassNames ==
    {"Conv2d", "ConvTranspose2d", "InstanceNorm2d", "ReflectionPad2d", "ReLU"}

\* classname.find("Conv") != -1 or classname.find("Linear") != -1
IsConvOrLinear ==
    [cls \in ClassNames |->
        Find(ClassChars(cls), ConvChars) # -1
        \/ Find(ClassChars(cls), LinearChars) # -1]

\* classname.find("BatchNorm2d") != -1
IsBatchNorm ==
    [cls \in ClassNames |-> Find(ClassChars(cls), BatchNormChars) # -1]

\* hasattr(m, "weight"): convolutions hold a weight, InstanceNorm2d holds
\* weight = None (affine is off), padding and ReLU hold none.
HasAttrWeight(m) == m.cls \in {"Conv2d", "ConvTranspose2d", "InstanceNorm2d"}

\* --------------------------------------------------------- parameter values
None == [kind |-> "none", gain |-> 0]
Default == [kind |-> "default", gain |-> 0]
Zero == [kind |-> "zero", gain |-> 0]
Spectral == [kind |-> "spectral", gain |-> 0]
Filled(kind, gain) == [kind |-> kind, gain |-> gain]

\* ------------------------------------------------------------------ layers
ReflectionPad2d(p) ==
    [cls |-> "ReflectionPad2d", cin |-> 0, cout |-> 0, k |-> 0, stride |-> 1,
     pad |-> p, dil |-> 1, sn |-> FALSE, weight |-> None, worig |-> None,
     bias |-> None, wshape |-> <<>>, u |-> 0, alias |-> FALSE]

Conv2d(cin, cout, k, stride, pad, dil, bias) ==
    [cls |-> "Conv2d", cin |-> cin, cout |-> cout, k |-> k, stride |-> stride,
     pad |-> pad, dil |-> dil, sn |-> FALSE, weight |-> Default,
     worig |-> None, bias |-> IF bias THEN Default ELSE None,
     wshape |-> <<cout, cin, k, k>>, u |-> 0, alias |-> FALSE]

ConvTranspose2d(cin, cout, k, stride, pad) ==
    [cls |-> "ConvTranspose2d", cin |-> cin, cout |-> cout, k |-> k,
     stride |-> stride, pad |-> pad, dil |-> 1, sn |-> FALSE,
     weight |-> Default, worig |-> None, bias |-> Default,
     wshape |-> <<cin, cout, k, k>>, u |-> 0, alias |-> FALSE]

InstanceNorm2d(n) ==
    [cls |-> "InstanceNorm2d", cin |-> n, cout |-> n, k |-> 0, stride |-> 1,
     pad |-> 0, dil |-> 1, sn |-> FALSE, weight |-> None, worig |-> None,
     bias |-> None, wshape |-> <<>>, u |-> 0, alias |-> FALSE]

ReLU ==
    [cls |-> "ReLU", cin |-> 0, cout |-> 0, k |-> 0, stride |-> 1,
     pad |-> 0, dil |-> 1, sn |-> FALSE, weight |-> None, worig |-> None,
     bias |-> None, wshape |-> <<>>, u |-> 0, alias |-> FALSE]

\* nn.utils.spectral_norm moves the parameter weight to weight_orig, keeps a
\* plain attribute weight that shares its storage (alias) until the first
\* forward pass replaces it, and registers the buffers of the power
\* iteration (u counts the iterations done on them).
spectral_norm(module, mode) ==
    IF mode
    THEN [module EXCEPT !.sn = TRUE, !.worig = module.weight, !.alias = TRUE]
    ELSE module

\* ------------------------------------------------------------- ResnetBlock
\* conv_block of ResnetBlock(dim, dilation, use_spectral_norm).
ResnetBlockPadOne(dim, dilation, use_spectral_norm) ==
    << ReflectionPad2d(1),
       spectral_norm(Conv2d(dim, dim, 3, 1, 0, dilation, ~use_spectral_norm),
                     use_spectral_norm),
       InstanceNorm2d(dim),
       ReLU,
       ReflectionPad2d(1),
       spectral_norm(Conv2d(dim, dim, 3, 1, 0, 1, ~use_spectral_norm),
                     use_spectral_norm),
       InstanceNorm2d(dim) >>

ResnetBlock(dim, dilation, use_spectral_norm) ==
    << ReflectionPad2d(dilation),
       spectral_norm(Conv2d(dim, dim, 3, 1, 0, dilation, ~use_spectral_norm),
                     use_spectral_norm),
       InstanceNorm2d(dim),
       ReLU,
       ReflectionPad2d(1),
       spectral_norm(Conv2d(dim, dim, 3, 1, 0, 1, ~use_spectral_norm),
                     use_spectral_norm),
       InstanceNorm2d(dim) >>

\* The default of ResnetBlock's use_spectral_norm parameter.
ResnetBlockDefaultOn == TRUE

ResnetBlockDefaultSN == FALSE

\* --------------------------------------------------------------- init_weights
InitFuncKeepsBias(m, init_type, gain) ==
    IF HasAttrWeight(m) /\ IsConvOrLinear[m.cls]
    THEN LET w == CASE init_type = "normal" -> Filled("normal", gain)
                    [] init_type = "xavier" -> Filled("xavier", gain)
                    [] init_type = "kaiming" -> Filled("kaiming", 0)
                    [] init_type = "orthogonal" -> Filled("orthogonal", gain)
                    [] OTHER -> m.weight
         IN  [m EXCEPT !.weight = w,
                       !.worig = IF m.sn /\ m.alias THEN w ELSE m.worig,
                       !.bias = IF init_type \in {"normal", "xavier", "kaiming",
                                                  "orthogonal"}
                                   /\ m.bias # None
                                THEN Zero ELSE m.bias]
    ELSE m

InitFuncUnknownIsNormal(m, init_type, gain) ==
    IF HasAttrWeight(m) /\ IsConvOrLinear[m.cls]
    THEN LET w == CASE init_type = "xavier" -> Filled("xavier", gain)
                    [] init_type = "kaiming" -> Filled("kaiming", 0)
                    [] init_type = "orthogonal" -> Filled("orthogonal", gain)
                    [] OTHER -> Filled("normal", gain)
         IN  [m EXCEPT !.weight = w,
                       !.worig = IF m.sn /\ m.alias THEN w ELSE m.worig,
                       !.bias = IF m.bias # None THEN Zero ELSE m.bias]
    ELSE m

\* init_func(m) of init_weights(init_type, gain).
init_func(m, init_type, gain) ==
    IF HasAttrWeight(m) /\ IsConvOrLinear[m.cls]
    THEN LET w == CASE init_type = "normal" -> Filled("normal", gain)
                    [] init_type = "xavier" -> Filled("xavier", gain)
                    [] init_type = "kaiming" -> Filled("kaiming", 0)
                    [] init_type = "orthogonal" -> Filled("orthogonal", gain)
                    [] OTHER -> m.weight
         IN  [m EXCEPT !.weight = w,
                       !.worig = IF m.sn /\ m.alias THEN w ELSE m.worig,
                       !.bias = IF m.bias # None THEN Zero ELSE m.bias]
    ELSE IF IsBatchNorm[m.cls]
    THEN [m EXCEPT !.weight = Filled("normal", gain), !.bias = Zero]
    ELSE m

ApplySeq(layers, init_type, gain) ==
    [i \in 1..Len(layers) |-> init_func(layers[i], init_type, gain)]

\* self.apply(init_func) over the modules of a generator.  The containers
\* (Sequential, ResnetBlock, the generator) hold no weight attribute and
\* their names hold none of Conv, Linear, BatchNorm2d: init_func leaves them.
init_weights(g, init_type, gain) ==
    [g EXCEPT !.encoder = ApplySeq(g.encoder, init_type, gain),
              !.middle = [b \in 1..Len(g.middle) |->
                             ApplySeq(g.middle[b], init_type, gain)],
              !.decoder = ApplySeq(g.decoder, init_type, gain)]

\* ---------------------------------------------------------------- generators
SRGenerator(residual_blocks, do_init) ==
    LET g == [name |-> "SRGenerator",
              encoder |-> << ReflectionPad2d(3),
                             Conv2d(4, 64, 7, 1, 0, 1, TRUE),
                             InstanceNorm2d(64),
                             ReLU,
                             Conv2d(64, 128, 4, 2, 1, 1, TRUE),
                             InstanceNorm2d(128),
                             ReLU,
                             Conv2d(128, 256, 4, 2, 1, 1, TRUE),
                             InstanceNorm2d(256),
                             ReLU >>,
              middle |-> [b \in 1..residual_blocks |->
                            ResnetBlock(BlockDim, BlockDilation,
                                        ResnetBlockDefaultSN)],
              decoder |-> << ConvTranspose2d(256, 128, 4, 2, 1),
                             InstanceNorm2d(128),
                             ReLU,
                             ConvTranspose2d(128, 64, 4, 2, 1),
                             InstanceNorm2d(64),
                             ReLU,
                             ReflectionPad2d(3),
                             Conv2d(64, 3, 7, 1, 0, 1, TRUE) >>]
    IN  IF do_init THEN init_weights(g, "normal", DefaultGain) ELSE g

EdgeGenerator(residual_blocks, use_spectral_norm, do_init) ==
    LET g == [name |-> "EdgeGenerator",
              encoder |-> << ReflectionPad2d(3),
                             spectral_norm(Conv2d(4, 64, 7, 1, 0, 1, TRUE),
                                           use_spectral_norm),
                             InstanceNorm2d(64),
                             ReLU,
                             spectral_norm(Conv2d(64, 128, 4, 2, 1, 1, TRUE),
                                           use_spectral_norm),
                             InstanceNorm2d(128),
                             ReLU,
                             spectral_norm(Conv2d(128, 256, 4, 2, 1, 1, TRUE),
                                           use_spectral_norm),
                             InstanceNorm2d(256),
                             ReLU >>,
              middle |-> [b \in 1..residual_blocks |->
                            ResnetBlock(BlockDim, BlockDilation,
                                        use_spectral_norm)],
              decoder |-> << spectral_norm(ConvTranspose2d(256, 128, 4, 2, 1),
                                           use_spectral_norm),
                             InstanceNorm2d(128),
                             ReLU,
                             spectral_norm(ConvTranspose2d(128, 64, 4, 2, 1),
                                           use_spectral_norm),
                             InstanceNorm2d(64),
                             ReLU,
                             ReflectionPad2d(3),
                             Conv2d(64, 1, 7, 1, 0, 1, TRUE) >>]
    IN  IF do_init THEN init_weights(g, "normal", DefaultGain) ELSE g

\* ----------------------------------------------------------- element values
\* The numeric class of a tensor's elements: "rng" is a range [lo, hi] in
\* units of 1/Unit, "fin" finite float32 values, "big" finite values large
\* enough for a convolution's accumulated sum to exceed the float32 range,
\* "inf" some infinite element, "nan" some NaN element.
NaN == [k |-> "nan", lo |-> 0, hi |-> 0]
Inf == [k |-> "inf", lo |-> 0, hi |-> 0]
Big == [k |-> "big", lo |-> 0, hi |-> 0]
Fin == [k |-> "fin", lo |-> 0, hi |-> 0]
Rng(lo, hi) == [k |-> "rng", lo |-> lo, hi |-> hi]

Rank(v) ==
    CASE v.k = "nan" -> 4 [] v.k = "inf" -> 3 [] v.k = "big" -> 2
      [] v.k = "fin" -> 1 [] OTHER -> 0

Min2(a, b) == IF a <= b THEN a ELSE b
Max2(a, b) == IF a >= b THEN a ELSE b

\* The class of a tensor holding the elements of both a and b.
JoinVal(a, b) ==
    IF a.k = "rng" /\ b.k = "rng"
    THEN Rng(Min2(a.lo, b.lo), Max2(a.hi, b.hi))
    ELSE IF Rank(a) >= Rank(b) THEN a ELSE b

\* Elementwise a + b.
AddVal(a, b) ==
    IF a.k = "rng" /\ b.k = "rng"
    THEN Rng(a.lo + b.lo, a.hi + b.hi)
    ELSE IF Rank(a) >= Rank(b) THEN a ELSE b

\* A convolution: NaN stays, sums over "big" values overflow.
ConvVal(v) ==
    CASE v.k = "nan" -> NaN
      [] v.k \in {"inf", "big"} -> Inf
      [] OTHER -> Fin

\* Instance normalisation subtracts the mean: inf - inf is NaN.
NormVal(v) == IF v.k \in {"nan", "inf"} THEN NaN ELSE Fin

ReLUVal(v) ==
    IF v.k = "rng" THEN Rng(Max2(v.lo, 0), Max2(v.hi, 0)) ELSE v

\* ------------------------------------------------------------------ tensors
Tensor(shape, val, src, sig) ==
    [shape |-> shape, val |-> val, src |-> src, sig |-> sig]

Err == Tensor(<<>>, NaN, <<"error">>, 0)
IsErr(t) == t.shape = <<>>

\* torch.sigmoid, torch.tanh, x + c and x / d on a tensor.
SigmoidMissing(t) == t

Sigmoid(t) ==
    IF IsErr(t) THEN t
    ELSE [t EXCEPT !.val = IF t.val.k = "nan" THEN NaN ELSE Rng(0, Unit)]

Tanh(t) ==
    IF IsErr(t) THEN t
    ELSE [t EXCEPT !.val = IF t.val.k = "nan" THEN NaN ELSE Rng(-Unit, Unit)]

AddScalar(t, c) ==
    IF IsErr(t) \/ t.val.k # "rng" THEN t
    ELSE [t EXCEPT !.val = Rng(t.val.lo + c * Unit, t.val.hi + c * Unit)]

DivScalar(t, d) ==
    IF IsErr(t) \/ t.val.k # "rng" THEN t
    ELSE [t EXCEPT !.val = Rng(t.val.lo \div d, t.val.hi \div d)]

\* F.interpolate(t, scale_factor=4), nearest neighbour.
Interpolate(t) ==
    IF IsErr(t) THEN t
    ELSE [t EXCEPT !.shape = <<t.shape[1], t.shape[2],
                               t.shape[3] * ScaleFactor,
                               t.shape[4] * ScaleFactor>>,
                   !.src = <<"interpolate">> \o t.src]

\* torch.cat((a, b), dim=1): every dimension but the channels must agree.
Cat(a, b) ==
    IF IsErr(a) \/ IsErr(b) THEN Err
    ELSE IF a.shape[1] = b.shape[1] /\ a.shape[3] = b.shape[3]
            /\ a.shape[4] = b.shape[4]
    THEN Tensor(<<a.shape[1], a.shape[2] + b.shape[2], a.shape[3], a.shape[4]>>,
                JoinVal(a.val, b.val), <<"cat">> \o a.src \o b.src,
                Max2(a.sig, b.sig))
    ELSE Err

\* a + b with broadcasting: each dimension agrees or one of the two is 1.
Add(a, b) ==
    IF IsErr(a) \/ IsErr(b) THEN Err
    ELSE IF \A i \in 1..4 : a.shape[i] = b.shape[i] \/ a.shape[i] = 1
                            \/ b.shape[i] = 1
    THEN Tensor([i \in 1..4 |-> Max2(a.shape[i], b.shape[i])],
                AddVal(a.val, b.val), b.src, Max2(a.sig, b.sig))
    ELSE Err

\* ------------------------------------------------------------ layer forward
ConvOutNoPad(n, m) == (n - m.dil * (m.k - 1) - 1) \div m.stride + 1
ConvTransposeOutNoPad(n, m) == (n - 1) * m.stride + m.dil * (m.k - 1) + 1

ConvOut(n, m) == (n + 2 * m.pad - m.dil * (m.k - 1) - 1) \div m.stride + 1
ConvTransposeOut(n, m) ==
    (n - 1) * m.stride - 2 * m.pad + m.dil * (m.k - 1) + 1

\* The shape a layer returns on shape s, <<>> when it raises.  strict: the
\* tensor engine refuses to normalise a single spatial element.
LayerShape(m, s, strict) ==
    CASE m.cls = "ReflectionPad2d" ->
            IF m.pad < s[3] /\ m.pad < s[4]
            THEN <<s[1], s[2], s[3] + 2 * m.pad, s[4] + 2 * m.pad>>
            ELSE <<>>
      [] m.cls = "Conv2d" ->
            IF s[2] = m.cin
               /\ s[3] + 2 * m.pad >= m.dil * (m.k - 1) + 1
               /\ s[4] + 2 * m.pad >= m.dil * (m.k - 1) + 1
            THEN <<s[1], m.cout, ConvOut(s[3], m), ConvOut(s[4], m)>>
            ELSE <<>>
      [] m.cls = "ConvTranspose2d" ->
            IF s[2] = m.cin
            THEN <<s[1], m.cout, ConvTransposeOut(s[3], m),
                   ConvTransposeOut(s[4], m)>>
            ELSE <<>>
      [] m.cls = "InstanceNorm2d" ->
            IF strict /\ s[3] * s[4] = 1 THEN <<>> ELSE s
      [] OTHER -> s

LayerVal(m, v) ==
    CASE m.cls \in {"Conv2d", "ConvTranspose2d"} -> ConvVal(v)
      [] m.cls = "InstanceNorm2d" -> NormVal(v)
      [] m.cls = "ReLU" -> ReLUVal(v)
      [] OTHER -> v

\* The forward pre-hook of a spectrally normalised layer: one power
\* iteration on the buffers when the module is in training mode, and the
\* attribute weight is replaced by weight_orig / sigma in either mode.
PreHookAnyMode(m, training) ==
    IF m.sn
    THEN [m EXCEPT !.u = m.u + 1, !.weight = Spectral, !.alias = FALSE]
    ELSE m

PreHook(m, training) ==
    IF m.sn
    THEN [m EXCEPT !.u = IF training THEN m.u + 1 ELSE m.u,
                   !.weight = Spectral, !.alias = FALSE]
    ELSE m

\* The element of a one-element set: {e(r) : r \in {v}} computes v once.
Only(S) == CHOOSE x \in S : TRUE

\* One layer applied to t, after its forward pre-hook.
LayerForward(m, t, strict, training) ==
    Only({ IF LayerShape(m2, t.shape, strict) = <<>> THEN Err
           ELSE Tensor(LayerShape(m2, t.shape, strict), LayerVal(m2, t.val),
                       t.src, IF m2.sn THEN Max2(t.sig, m2.u) ELSE t.sig) :
           m2 \in {PreHook(m, training)} })

\* nn.Sequential from layer i on: the layers in order, stopping at the
\* first that raises.  out is the result, n the number of layers entered.
RECURSIVE Sequential(_, _, _, _, _)
Sequential(layers, i, t, strict, training) ==
    IF i > Len(layers) \/ IsErr(t) THEN [out |-> t, n |-> i - 1]
    ELSE Only({ Sequential(layers, i + 1, r, strict, training) :
                r \in {LayerForward(layers[i], t, strict, training)} })

\* The layers after a pass that entered the first n of them.
Hooked(layers, n, training) ==
    [j \in 1..Len(layers) |->
        IF j <= n THEN PreHook(layers[j], training) ELSE layers[j]]

\* ResnetBlock.forward: x + conv_block(x).
ResnetBlockForward(conv_block, x, strict, training) ==
    Only({ [out |-> Add(x, r.out), n |-> r.n] :
           r \in {Sequential(conv_block, 1, x, strict, training)} })

\* self.middle from block b on: the residual blocks in order; no block, no
\* change.  ns lists the number of layers entered in each block reached.
RECURSIVE Middle(_, _, _, _, _, _)
Middle(blocks, b, t, ns, strict, training) ==
    IF b > Len(blocks) \/ IsErr(t) THEN [out |-> t, ns |-> ns]
    ELSE Only({ Middle(blocks, b + 1, r.out, Append(ns, r.n), strict, training) :
                r \in {ResnetBlockForward(blocks[b], t, strict, training)} })

HookedBlocks(blocks, ns, training) ==
    [b \in 1..Len(blocks) |->
        Hooked(blocks[b], IF b <= Len(ns) THEN ns[b] ELSE 0, training)]

\* encoder, middle, decoder of either generator: the generator afterwards,
\* the encoder's and the middle's results and the decoder's result.
Body(g, x, strict, training) ==
    Only({ Only({ Only({
        [gen |-> [g EXCEPT !.encoder = Hooked(g.encoder, e.n, training),
                           !.middle = HookedBlocks(g.middle, m.ns, training),
                           !.decoder = Hooked(g.decoder, d.n, training)],
         enc |-> e.out, mid |-> m.out, dec |-> d.out] :
        d \in {Sequential(g.decoder, 1, m.out, strict, training)} }) :
        m \in {Middle(g.middle, 1, e.out, <<>>, strict, training)} }) :
        e \in {Sequential(g.encoder, 1, x, strict, training)} })

Named(t, name) == IF IsErr(t) THEN t ELSE [t EXCEPT !.src = <<name>> \o t.src]

\* x = (torch.tanh(x) + 1) / 2
SRActivationNoShift(x) == Tanh(x)

SRActivation(x) == DivScalar(AddScalar(Tanh(x), 1), 2)

\* SRGenerator.forward and EdgeGenerator.forward.
SRForward(g, x, strict, training) ==
    Only({ [gen |-> r.gen, enc |-> r.enc, mid |-> r.mid, dec |-> r.dec,
            out |-> Named(SRActivation(r.dec), "SRGenerator")] :
           r \in {Body(g, x, strict, training)} })

EdgeForward(g, x, strict, training) ==
    Only({ [gen |-> r.gen, enc |-> r.enc, mid |-> r.mid, dec |-> r.dec,
            out |-> Named(Sigmoid(r.dec), "EdgeGenerator")] :
           r \in {Body(g, x, strict, training)} })

\* ==================================================================== state
VARIABLES
    edgeGen,    \* EdgeSRModel.EdgeGenerator (or a generator built alone)
    srGen,      \* EdgeSRModel.SRGenerator (or a generator built alone)
    training,   \* nn.Module.training of the model and of all its layers
    strict,     \* the tensor engine refuses instance norm of one element
    frames,     \* the running EdgeSRModel.forward calls and their locals
    last,       \* the last init_weights call made on a generator
    probe,      \* a generator or ResnetBlock forward called on its own
    built       \* the constructor call that built the generators

vars == <<edgeGen, srGen, training, strict, frames, last, probe, built>>

Calls == 1..NumCalls

NoTensor == Tensor(<<>>, NaN, <<>>, 0)

IdleFrame ==
    [pc |-> "idle", lr |-> NoTensor, lr_edges |-> NoTensor,
     lr_scaled |-> NoTensor, lr_edges_scaled |-> NoTensor,
     inputs |-> NoTensor, edge_gen |-> NoTensor, outputs |-> NoTensor,
     log |-> <<>>]

NoCall == [op |-> "none", gen |-> "none", init_type |-> "none", gain |-> 0]
NoProbe == [pc |-> "idle", target |-> "none", x |-> NoTensor,
            enc |-> NoTensor, mid |-> NoTensor, dec |-> NoTensor,
            out |-> NoTensor, dim |-> 0, dil |-> 0, sn |-> FALSE]

\* Whether every power-iteration count of g is below n.
PowerItersBelow(g, n) ==
    /\ \A i \in 1..Len(g.encoder) : g.encoder[i].u < n
    /\ \A b \in 1..Len(g.middle) :
          \A i \in 1..Len(g.middle[b]) : g.middle[b][i].u < n
    /\ \A i \in 1..Len(g.decoder) : g.decoder[i].u < n

\* The inputs a caller hands to EdgeSRModel.forward: an image of
\* RgbChannels channels and an edge map, which may or may not match it.
LrVals == {Rng(0, Unit), Big, NaN}
EdgeVals == {Rng(0, Unit)}

Inputs(Bs, Hs, LVs, EVs) ==
    UNION {{[lr |-> Tensor(<<b, RgbChannels, h, w>>, v, <<"lr">>, 0),
             lr_edges |-> Tensor(<<b, EdgeChannels, he, w>>, ve,
                                 <<"lr_edges">>, 0)] :
               b \in Bs, w \in Hs, he \in {h, 1}, v \in LVs, ve \in EVs} :
           h \in Hs}

\* ------------------------------------------------------------------ actions
\* EdgeSRModel.__init__(use_spectral_norm)
EdgeSRModelInit(use_spectral_norm) ==
    /\ edgeGen = EdgeGenerator(DefaultResidualBlocks, use_spectral_norm, TRUE)
    /\ srGen = SRGenerator(DefaultResidualBlocks, TRUE)
    /\ built = [class |-> "EdgeSRModel", residual_blocks |-> DefaultResidualBlocks,
                use_spectral_norm |-> use_spectral_norm, init_weights |-> TRUE]

\* model.train() and model.eval(), inherited from nn.Module.
Train ==
    /\ ~training
    /\ training' = TRUE
    /\ UNCHANGED <<edgeGen, srGen, strict, frames, last, probe, built>>

Eval ==
    /\ training
    /\ training' = FALSE
    /\ UNCHANGED <<edgeGen, srGen, strict, frames, last, probe, built>>

\* generator.init_weights(init_type, gain), called by the user.
InitWeights(gen, init_type, gain) ==
    /\ edgeGen' = IF gen = "EdgeGenerator"
                  THEN init_weights(edgeGen, init_type, gain) ELSE edgeGen
    /\ srGen' = IF gen = "SRGenerator"
                THEN init_weights(srGen, init_type, gain) ELSE srGen
    /\ last' = [op |-> "init_weights", gen |-> gen, init_type |-> init_type,
                gain |-> gain]
    /\ UNCHANGED <<training, strict, frames, probe, built>>

\* forward(lr, lr_edges) is entered with one of the inputs ins.
Call(i, ins) ==
    /\ frames[i].pc = "idle"
    /\ \E in \in ins :
          frames' = [frames EXCEPT ![i] =
                       [IdleFrame EXCEPT !.pc = "interp_lr", !.lr = in.lr,
                                         !.lr_edges = in.lr_edges]]
    /\ UNCHANGED <<edgeGen, srGen, training, strict, last, probe, built>>

\* lr_scaled = F.interpolate(lr, scale_factor=4)
InterpLr(i) ==
    /\ frames[i].pc = "interp_lr"
    /\ frames' = [frames EXCEPT ![i].lr_scaled = Interpolate(frames[i].lr),
                                ![i].log = Append(@, "interpolate"),
                                ![i].pc = "interp_edges"]
    /\ UNCHANGED <<edgeGen, srGen, training, strict, last, probe, built>>

\* lr_edges_scaled = F.interpolate(lr_edges, scale_factor=4)
InterpEdges(i) ==
    /\ frames[i].pc = "interp_edges"
    /\ frames' = [frames EXCEPT
                    ![i].lr_edges_scaled = Interpolate(frames[i].lr_edges),
                    ![i].log = Append(@, "interpolate"),
                    ![i].pc = "cat_inputs"]
    /\ UNCHANGED <<edgeGen, srGen, training, strict, last, probe, built>>

\* inputs = torch.cat((lr_scaled, lr_edges_scaled), dim=1)
CatInputs(i) ==
    /\ frames[i].pc = "cat_inputs"
    /\ \E t \in {Cat(frames[i].lr_scaled, frames[i].lr_edges_scaled)} :
           frames' = [frames EXCEPT
                        ![i].inputs = t,
                        ![i].log = Append(@, "cat"),
                        ![i].pc = IF IsErr(t) THEN "raised" ELSE "edge"]
    /\ UNCHANGED <<edgeGen, srGen, training, strict, last, probe, built>>

\* edge_gen = self.EdgeGenerator(inputs)
RunEdgeGenerator(i) ==
    /\ frames[i].pc = "edge"
    /\ training => PowerItersBelow(edgeGen, MaxPowerIters)
    /\ \E r \in {EdgeForward(edgeGen, frames[i].inputs, strict, training)} :
           /\ edgeGen' = r.gen
           /\ frames' = [frames EXCEPT
                           ![i].edge_gen = r.out,
                           ![i].log = Append(@, "EdgeGenerator"),
                           ![i].pc = IF IsErr(r.out) THEN "raised" ELSE "cat_edge"]
    /\ UNCHANGED <<srGen, training, strict, last, probe, built>>

\* inputs = torch.cat((lr_scaled, edge_gen), dim=1)
CatEdgeLowRes(i) ==
    Cat(frames[i].lr_scaled, frames[i].lr_edges_scaled)

CatEdgeOperands(i) ==
    Cat(frames[i].lr_scaled, frames[i].edge_gen)

CatEdge(i) ==
    /\ frames[i].pc = "cat_edge"
    /\ \E t \in {CatEdgeOperands(i)} :
           frames' = [frames EXCEPT
                        ![i].inputs = t,
                        ![i].log = Append(@, "cat"),
                        ![i].pc = IF IsErr(t) THEN "raised" ELSE "sr"]
    /\ UNCHANGED <<edgeGen, srGen, training, strict, last, probe, built>>

\* outputs = self.SRGenerator(inputs)
RunSRGenerator(i) ==
    /\ frames[i].pc = "sr"
    /\ \E r \in {SRForward(srGen, frames[i].inputs, strict, training)} :
           /\ srGen' = r.gen
           /\ frames' = [frames EXCEPT
                           ![i].outputs = r.out,
                           ![i].log = Append(@, "SRGenerator"),
                           ![i].pc = IF IsErr(r.out) THEN "raised" ELSE "returned"]
    /\ UNCHANGED <<edgeGen, training, strict, last, probe, built>>

\* The caller takes the result (or the exception): the frame is gone.
Done(i) ==
    /\ frames[i].pc \in {"returned", "raised"}
    /\ frames' = [frames EXCEPT ![i] = IdleFrame]
    /\ UNCHANGED <<edgeGen, srGen, training, strict, last, probe, built>>

ForwardStep(i) ==
    \/ InterpLr(i)
    \/ InterpEdges(i)
    \/ CatInputs(i)
    \/ RunEdgeGenerator(i)
    \/ CatEdge(i)
    \/ RunSRGenerator(i)

\* generator(x) called on its own, on a generator just built.
ProbeGenerator(target, x) ==
    /\ probe.pc = "idle"
    /\ \E r \in {IF target = "EdgeGenerator"
                THEN EdgeForward(edgeGen, x, strict, training)
                ELSE SRForward(srGen, x, strict, training)} :
           /\ probe' = [NoProbe EXCEPT !.pc = "done", !.target = target,
                                       !.x = x, !.enc = r.enc, !.mid = r.mid,
                                       !.dec = r.dec, !.out = r.out]
           /\ edgeGen' = IF target = "EdgeGenerator" THEN r.gen ELSE edgeGen
           /\ srGen' = IF target = "SRGenerator" THEN r.gen ELSE srGen
    /\ UNCHANGED <<training, strict, frames, last, built>>

\* ResnetBlock(dim, dilation, use_spectral_norm)(x)
ProbeBlock(dim, dilation, use_spectral_norm, x) ==
    /\ probe.pc = "idle"
    /\ \E r \in {ResnetBlockForward(
                    ResnetBlock(dim, dilation, use_spectral_norm), x,
                    strict, training)} :
           probe' = [NoProbe EXCEPT !.pc = "done", !.target = "ResnetBlock",
                                    !.x = x, !.out = r.out, !.dim = dim,
                                    !.dil = dilation,
                                    !.sn = use_spectral_norm]
    /\ UNCHANGED <<edgeGen, srGen, training, strict, frames, last, built>>

\* ----------------------------------------------------------- specifications
\* EdgeSRModel(use_spectral_norm), or the two generators built on their own
\* with residual_blocks, use_spectral_norm and init_weights arguments.
Built(inits) ==
    \/ \E use_spectral_norm \in BOOLEAN : EdgeSRModelInit(use_spectral_norm)
    \/ \E residual_blocks \in 0..MaxBlocks, use_spectral_norm \in BOOLEAN,
          do_init \in inits :
          /\ edgeGen = EdgeGenerator(residual_blocks, use_spectral_norm, do_init)
          /\ srGen = SRGenerator(residual_blocks, do_init)
          /\ built = [class |-> "generators", residual_blocks |-> residual_blocks,
                      use_spectral_norm |-> use_spectral_norm,
                      init_weights |-> do_init]

Rest ==
    /\ training = TRUE
    /\ strict \in BOOLEAN
    /\ frames = [i \in Calls |-> IdleFrame]
    /\ last = NoCall
    /\ probe = NoProbe

\* Generators after construction; init_weights, train and eval called on them.
Init == Built(BOOLEAN) /\ Rest

Next ==
    \/ Train
    \/ Eval
    \/ \E gen \in {"EdgeGenerator", "SRGenerator"}, init_type \in InitTypes,
          gain \in Gains : InitWeights(gen, init_type, gain)

Spec == Init /\ [][Next]_vars

\* An EdgeSRModel after construction, one forward call at a time, over
\* every input shape and value class.
InitModel ==
    /\ \E use_spectral_norm \in BOOLEAN : EdgeSRModelInit(use_spectral_norm)
    /\ Rest

LrSizes == {1, 3} \cup {4 * q : q \in 1..MaxQuads}

AllInputs == Inputs(1..MaxB, LrSizes, LrVals, EdgeVals)

NextForward ==
    \/ Train
    \/ Eval
    \/ Call(1, AllInputs)
    \/ ForwardStep(1)
    \/ Done(1)

SpecForward == InitModel /\ [][NextForward]_vars

\* NumCalls forward calls interleaved on one model, the caller changing no
\* parameter meanwhile.
ConcInputs == Inputs({1}, {3}, {Rng(0, Unit)}, EdgeVals)

NextConc ==
    \/ Train
    \/ Eval
    \/ \E i \in Calls : Call(i, ConcInputs)
    \/ \E i \in Calls : ForwardStep(i)

SpecConc == InitModel /\ [][NextConc]_vars

\* One generator forward on a 4-channel tensor of any size.
GenInputs ==
    {Tensor(<<b, RgbChannels + EdgeChannels, h, w>>, Fin, <<"x">>, 0) :
        b \in 1..MaxB, h \in 1..MaxGenH, w \in 1..MaxGenH}

NextGen ==
    \E target \in {"EdgeGenerator", "SRGenerator"}, x \in GenInputs :
        ProbeGenerator(target, x)

InitGen == Built({TRUE}) /\ Rest

SpecGen == InitGen /\ [][NextGen]_vars

\* One ResnetBlock built and applied to a tensor of its channel count.
NextBlock ==
    \E dim \in 1..MaxBlockC, dilation \in 1..MaxDilation,
       use_spectral_norm \in BOOLEAN, b \in 1..MaxB,
       h \in 1..MaxBlockH, w \in 1..MaxBlockH :
        ProbeBlock(dim, dilation, use_spectral_norm,
                   Tensor(<<b, dim, h, w>>, Fin, <<"x">>, 0))

SpecBlock == InitModel /\ [][NextBlock]_vars

\* ==================================================================== claims
KnownInitTypes == {"normal", "xavier", "kaiming", "orthogonal"}
IsConv(m) == m.cls \in {"Conv2d", "ConvTranspose2d"}
InUnit(v) == v.k = "rng" /\ v.lo >= 0 /\ v.hi <= Unit

\* P holds of every layer of g paired with the same layer of h.
AllLayerPairs(g, h, P(_, _)) ==
    /\ Len(h.encoder) = Len(g.encoder)
    /\ Len(h.middle) = Len(g.middle)
    /\ Len(h.decoder) = Len(g.decoder)
    /\ \A j \in 1..Len(g.encoder) : P(g.encoder[j], h.encoder[j])
    /\ \A b \in 1..Len(g.middle) :
          \A j \in 1..Len(g.middle[b]) : P(g.middle[b][j], h.middle[b][j])
    /\ \A j \in 1..Len(g.decoder) : P(g.decoder[j], h.decoder[j])

\* ---- C1
ValidForwardInput(f) ==
    /\ f.lr.shape[2] = 3
    /\ f.lr_edges.shape = <<f.lr.shape[1], 1, f.lr.shape[3], f.lr.shape[4]>>
    /\ f.lr.shape[3] % 4 = 0
    /\ f.lr.shape[4] % 4 = 0

\* C1: a forward call on an RGB tensor (B,3,H,W) and an edge tensor
\* (B,1,H,W), H and W divisible by 4, never raises a shape error and returns
\* a tensor of shape exactly (B,3,4H,4W).
C1_ForwardShape ==
    \A i \in Calls :
        (frames[i].pc # "idle" /\ ValidForwardInput(frames[i]))
        => /\ frames[i].pc # "raised"
           /\ frames[i].pc = "returned"
              => frames[i].outputs.shape =
                    <<frames[i].lr.shape[1], 3, 4 * frames[i].lr.shape[3],
                      4 * frames[i].lr.shape[4]>>

C1_Witness ==
    /\ frames[1].pc = "returned"
    /\ ValidForwardInput(frames[1])
    /\ frames[1].lr.shape[1] = 2
    /\ frames[1].lr.shape = <<2, 3, 4, 8>>
    /\ frames[1].outputs.shape = <<2, 3, 16, 32>>

\* ---- C2
FullLog == <<"interpolate", "interpolate", "cat", "EdgeGenerator", "cat",
             "SRGenerator">>
UpRgb == <<"interpolate", "lr">>
UpEdges == <<"interpolate", "lr_edges">>
EdgeIn == <<"cat">> \o UpRgb \o UpEdges
EdgeOut == <<"EdgeGenerator">> \o EdgeIn
SRIn == <<"cat">> \o UpRgb \o EdgeOut

\* C2: in every forward call both inputs are upsampled, then EdgeGenerator
\* runs exactly once on the 4-channel concatenation (upsampled RGB,
\* upsampled edges), then SRGenerator runs exactly once on the 4-channel
\* concatenation (the same upsampled RGB, EdgeGenerator's edge map), and its
\* output is what is returned; the upsampled low-resolution edge map never
\* reaches SRGenerator directly.
C2_OrderAndFlow ==
    \A i \in Calls :
        /\ frames[i].log = SubSeq(FullLog, 1, Len(frames[i].log))
        /\ frames[i].pc = "edge"
           => /\ Len(frames[i].log) = 3
              /\ frames[i].lr_scaled.src = UpRgb
              /\ frames[i].lr_edges_scaled.src = UpEdges
              /\ frames[i].inputs.src = EdgeIn
              /\ frames[i].inputs.shape[2] = 4
        /\ frames[i].pc \in {"cat_edge", "sr", "returned"}
           => frames[i].edge_gen.src = EdgeOut
        /\ frames[i].pc = "sr"
           => /\ Len(frames[i].log) = 5
              /\ frames[i].inputs.src = SRIn
              /\ frames[i].inputs.src # EdgeIn
              /\ frames[i].inputs.shape[2] = 4
              /\ frames[i].inputs.shape[3] = frames[i].lr_scaled.shape[3]
        /\ frames[i].pc = "returned"
           => /\ frames[i].log = FullLog
              /\ frames[i].outputs.src = <<"SRGenerator">> \o SRIn

C2_Witness ==
    /\ frames[1].pc = "returned"
    /\ frames[1].log = FullLog
    /\ frames[1].outputs.src = <<"SRGenerator">> \o SRIn

\* ---- C3
GenProbeOK ==
    /\ probe.pc = "done"
    /\ probe.target \in {"EdgeGenerator", "SRGenerator"}
    /\ ~IsErr(probe.out)

\* C3 as stated: for every input size a generator accepts, the encoder
\* divides height and width by exactly 4, the decoder multiplies them by
\* exactly 4 and the output has the input's height and width.
C3_Original ==
    GenProbeOK
    => \A d \in {3, 4} :
          /\ probe.enc.shape[d] * 4 = probe.x.shape[d]
          /\ probe.dec.shape[d] = 4 * probe.mid.shape[d]
          /\ probe.out.shape[d] = probe.x.shape[d]

\* C3 amended: for every accepted input the encoder yields floor(n/4) for
\* each spatial size n, the middle keeps it and the decoder multiplies it by
\* exactly 4, so the output size is 4*floor(n/4): the input size exactly
\* when n is divisible by 4.
C3_EncoderDecoderScale ==
    GenProbeOK
    => \A d \in {3, 4} :
          /\ probe.enc.shape[d] = probe.x.shape[d] \div 4
          /\ probe.mid.shape[d] = probe.enc.shape[d]
          /\ probe.dec.shape[d] = 4 * probe.mid.shape[d]
          /\ probe.out.shape[d] = 4 * (probe.x.shape[d] \div 4)
          /\ probe.x.shape[d] % 4 = 0
             => /\ probe.enc.shape[d] * 4 = probe.x.shape[d]
                /\ probe.out.shape[d] = probe.x.shape[d]

C3_Witness ==
    /\ GenProbeOK
    /\ probe.target = "EdgeGenerator"
    /\ built.residual_blocks = 2
    /\ probe.x.shape = <<1, 4, 16, 12>>
    /\ probe.enc.shape = <<1, 256, 4, 3>>
    /\ probe.out.shape = <<1, 1, 16, 12>>

\* ---- C4
BlockProbe ==
    /\ probe.pc = "done"
    /\ probe.target = "ResnetBlock"
    /\ probe.x.shape[3] >= 2 * probe.dil + 1
    /\ probe.x.shape[4] >= 2 * probe.dil + 1

\* The shape after layers a and b of the block applied to shape s.
PadConvShape(a, b, s) ==
    LayerShape(ResnetBlock(probe.dim, probe.dil, probe.sn)[b],
               LayerShape(ResnetBlock(probe.dim, probe.dil, probe.sn)[a],
                          s, strict),
               strict)

\* C4: on an input (B,C,H,W) with H, W >= 2d+1 a ResnetBlock of C channels
\* and dilation d returns a tensor of the input's shape: the reflect-pad by
\* d with the dilation-d 3x3 convolution, and the reflect-pad by 1 with the
\* 3x3 convolution, each restore the spatial size, so the skip addition is
\* shape-valid.
C4_BlockKeepsShape ==
    BlockProbe
    => /\ ~IsErr(probe.out)
       /\ probe.out.shape = probe.x.shape
       /\ PadConvShape(1, 2, probe.x.shape) = probe.x.shape
       /\ PadConvShape(5, 6, probe.x.shape) = probe.x.shape

C4_Witness ==
    /\ BlockProbe
    /\ probe.dil = 3
    /\ probe.sn
    /\ probe.x.shape = <<2, 2, 7, 8>>
    /\ probe.out.shape = <<2, 2, 7, 8>>

\* ---- C5, C6
\* A step of init_weights: the only steps that leave training unchanged.
InitStep == training' = training /\ last'.op = "init_weights"

C5Post(m, m2) ==
    /\ (IsConv(m) /\ m.bias # None) => m2.bias = Zero
    /\ m2.wshape = m.wshape

C5Other(m, m2) == m2.wshape = m.wshape

\* C5: after init_weights(init_type, gain), whatever init_type and gain,
\* every Conv2d and ConvTranspose2d layer of the generator that has a bias
\* (spectrally normalised or not) has the bias zero, and every weight tensor
\* has the shape it had before.
C5_BiasZeroShapesKept ==
    [][InitStep
       => IF last'.gen = "EdgeGenerator"
          THEN /\ AllLayerPairs(edgeGen, edgeGen', C5Post)
               /\ AllLayerPairs(srGen, srGen', C5Other)
          ELSE /\ AllLayerPairs(srGen, srGen', C5Post)
               /\ AllLayerPairs(edgeGen, edgeGen', C5Other)]_vars

C5_Witness ==
    /\ last.op = "init_weights"
    /\ last.gen = "EdgeGenerator"
    /\ last.init_type = "kaiming"
    /\ last.gain = 100
    /\ ~built.init_weights
    /\ built.use_spectral_norm
    /\ edgeGen.encoder[2].sn
    /\ edgeGen.encoder[2].bias = Zero
    /\ edgeGen.decoder[1].cls = "ConvTranspose2d"
    /\ edgeGen.decoder[1].bias = Zero
    /\ edgeGen.decoder[8].bias = Zero

\* C6 as stated: init_weights with an init_type that is none of normal,
\* xavier, kaiming, orthogonal is a no-op on the model.
C6_Original ==
    [][(InitStep /\ last'.init_type \notin KnownInitTypes)
       => (edgeGen' = edgeGen /\ srGen' = srGen)]_vars

C6Post(m, m2) ==
    /\ m2.weight = m.weight
    /\ m2.worig = m.worig
    /\ m2.wshape = m.wshape
    /\ m2.u = m.u
    /\ m2.bias = IF IsConv(m) /\ m.bias # None THEN Zero ELSE m.bias

C6Other(m, m2) == m2 = m

\* C6 amended: init_weights with an unknown init_type changes no weight
\* tensor of the generator (no branch matches), but it is not a no-op: it
\* still sets the bias of every Conv2d and ConvTranspose2d layer that has
\* one to zero.
C6_UnknownTypeKeepsWeights ==
    [][(InitStep /\ last'.init_type \notin KnownInitTypes)
       => IF last'.gen = "EdgeGenerator"
          THEN /\ AllLayerPairs(edgeGen, edgeGen', C6Post)
               /\ AllLayerPairs(srGen, srGen', C6Other)
          ELSE /\ AllLayerPairs(srGen, srGen', C6Post)
               /\ AllLayerPairs(edgeGen, edgeGen', C6Other)]_vars

C6_Witness ==
    /\ last.op = "init_weights"
    /\ last.gen = "SRGenerator"
    /\ last.init_type = "bogus"
    /\ srGen.encoder[2].weight = Default
    /\ srGen.encoder[2].bias = Zero
    /\ edgeGen.encoder[2].bias = Default

\* ---- C7
ParamsOf(layers) ==
    [j \in 1..Len(layers) |->
        <<IF layers[j].sn THEN layers[j].worig ELSE layers[j].weight,
          layers[j].bias>>]

\* The parameters of g: weight (weight_orig under spectral norm) and bias.
Params(g) ==
    <<ParamsOf(g.encoder), [b \in 1..Len(g.middle) |-> ParamsOf(g.middle[b])],
      ParamsOf(g.decoder)>>

BuffersOf(layers) == [j \in 1..Len(layers) |-> layers[j].u]

\* The buffers of g: the power-iteration vectors of spectral normalisation.
Buffers(g) ==
    <<BuffersOf(g.encoder), [b \in 1..Len(g.middle) |-> BuffersOf(g.middle[b])],
      BuffersOf(g.decoder)>>

\* A statement of some forward call runs.
IsForwardStep ==
    \E i \in Calls :
        Len(frames'[i].log) > 0 /\ frames'[i].log # frames[i].log

\* What forward(lr, lr_edges) returns when run alone on the model.
Alone(lr, lr_edges) ==
    SRForward(srGen,
              Cat(Interpolate(lr),
                  EdgeForward(edgeGen, Cat(Interpolate(lr), Interpolate(lr_edges)),
                              strict, training).out),
              strict, training).out

\* C7 as stated: a forward pass changes no parameter and no buffer of
\* either generator.
C7_Original ==
    [][IsForwardStep
       => /\ Params(edgeGen)' = Params(edgeGen)
          /\ Params(srGen)' = Params(srGen)
          /\ Buffers(edgeGen)' = Buffers(edgeGen)
          /\ Buffers(srGen)' = Buffers(srGen)]_vars

\* C7 amended: a forward pass changes no parameter of either generator and
\* no buffer of SRGenerator; it leaves EdgeGenerator's spectral-norm buffers
\* unchanged only if the model is in eval mode or was built with
\* use_spectral_norm=False (in training mode, the mode after construction,
\* EdgeGenerator's pass changes them); and a model built with
\* use_spectral_norm=False returns from interleaved calls what each call
\* returns alone.
C7_ForwardWrites ==
    [][IsForwardStep
       => /\ Params(edgeGen)' = Params(edgeGen)
          /\ Params(srGen)' = Params(srGen)
          /\ Buffers(srGen)' = Buffers(srGen)
          /\ (~training \/ ~built.use_spectral_norm)
             => Buffers(edgeGen)' = Buffers(edgeGen)
          /\ (training /\ built.use_spectral_norm /\ edgeGen' # edgeGen)
             => Buffers(edgeGen)' # Buffers(edgeGen)
          /\ \A i \in Calls :
                (frames'[i].pc = "returned" /\ frames[i].pc = "sr"
                 /\ ~built.use_spectral_norm)
                => frames'[i].outputs =
                      Alone(frames[i].lr, frames[i].lr_edges)]_vars

C7_Witness ==
    /\ frames[1].pc = "returned"
    /\ frames[2].pc = "sr"
    /\ ~training
    /\ built.use_spectral_norm
    /\ edgeGen.encoder[2].u = 0
    /\ edgeGen.encoder[2].weight = Spectral

\* ---- C8
\* C8: in EdgeGenerator every convolution and transposed convolution of the
\* encoder, of each residual block and of the decoder is spectrally
\* normalised exactly when use_spectral_norm is on, except the final 64->1
\* convolution, which never is; in SRGenerator no convolution is, whatever
\* the constructor arguments, also inside an EdgeSRModel built with
\* use_spectral_norm=True.
C8_SpectralNormPlacement ==
    /\ Len(edgeGen.middle) = built.residual_blocks
    /\ Len(srGen.middle) = built.residual_blocks
    /\ \A j \in 1..Len(edgeGen.encoder) :
          IsConv(edgeGen.encoder[j])
          => edgeGen.encoder[j].sn = built.use_spectral_norm
    /\ \A b \in 1..Len(edgeGen.middle) :
          \A j \in 1..Len(edgeGen.middle[b]) :
              IsConv(edgeGen.middle[b][j])
              => edgeGen.middle[b][j].sn = built.use_spectral_norm
    /\ \A j \in 1..(Len(edgeGen.decoder) - 1) :
          IsConv(edgeGen.decoder[j])
          => edgeGen.decoder[j].sn = built.use_spectral_norm
    /\ LET final == edgeGen.decoder[Len(edgeGen.decoder)]
       IN  IsConv(final) /\ final.cin = 64 /\ final.cout = 1 /\ ~final.sn
    /\ \A j \in 1..Len(srGen.encoder) : ~srGen.encoder[j].sn
    /\ \A b \in 1..Len(srGen.middle) :
          \A j \in 1..Len(srGen.middle[b]) : ~srGen.middle[b][j].sn
    /\ \A j \in 1..Len(srGen.decoder) : ~srGen.decoder[j].sn

C8_Witness ==
    /\ built.class = "EdgeSRModel"
    /\ built.use_spectral_norm
    /\ edgeGen.encoder[2].sn
    /\ edgeGen.middle[8][6].sn
    /\ edgeGen.decoder[4].sn
    /\ ~edgeGen.decoder[8].sn
    /\ ~srGen.middle[8][6].sn

\* ---- C9
NoBlockProbe ==
    /\ probe.pc = "done"
    /\ probe.target = "EdgeGenerator"
    /\ built.residual_blocks = 0
    /\ probe.x.shape[2] = 4
    /\ probe.x.shape[3] % 4 = 0
    /\ probe.x.shape[4] % 4 = 0

NoBlockResult ==
    /\ Len(edgeGen.middle) = 0
    /\ ~IsErr(probe.out)
    /\ probe.mid = probe.enc
    /\ probe.out.shape =
          <<probe.x.shape[1], 1, probe.x.shape[3], probe.x.shape[4]>>
    /\ InUnit(probe.out.val)
    /\ probe.out.src = <<"EdgeGenerator">> \o probe.x.src

\* C9 as stated: an EdgeGenerator built with residual_blocks=0 has an empty
\* middle stage that returns its input, and its forward pass on any
\* (B,4,H,W) input with H and W divisible by 4 returns a sigmoid-activated
\* tensor of shape (B,1,H,W).
C9_Original == NoBlockProbe => NoBlockResult

\* C9 amended: the same for H and W divisible by 4 and not both 4; on a 4x4
\* input the encoder leaves a single spatial element, which the instance
\* normalisation of a tensor engine that checks the spatial size rejects.
C9_NoBlocksForward ==
    (NoBlockProbe /\ probe.x.shape[3] * probe.x.shape[4] > 16)
    => NoBlockResult

C9_Witness ==
    /\ NoBlockProbe
    /\ strict
    /\ probe.x.shape = <<2, 4, 4, 8>>
    /\ NoBlockResult

\* ---- C10
FiniteVal(v) == v.k \in {"rng", "fin", "big"}

\* C10 as stated: for every finite input every value SRGenerator, and so
\* EdgeSRModel.forward, returns lies in [0,1].
C10_Original ==
    \A i \in Calls :
        (frames[i].pc = "returned" /\ FiniteVal(frames[i].lr.val)
         /\ FiniteVal(frames[i].lr_edges.val))
        => InUnit(frames[i].outputs.val)

\* C10 amended: whenever the decoder's result x holds no NaN, every value
\* of (tanh(x) + 1) / 2, which is what SRGenerator and EdgeSRModel.forward
\* return, lies in [0,1]; a finite input large enough for a convolution to
\* overflow float32 gives NaN instead.
C10_UnitRangeUnlessNaN ==
    \A i \in Calls :
        frames[i].pc = "returned"
        => /\ Body(srGen, frames[i].inputs, strict, training).dec.val.k # "nan"
              => InUnit(frames[i].outputs.val)
           /\ frames[i].outputs.val.k \in {"rng", "nan"}

C10_Witness ==
    /\ frames[1].pc = "returned"
    /\ frames[1].lr.val = Rng(0, Unit)
    /\ frames[1].outputs.val = Rng(0, Unit)

====
